---- MODULE Spec2Model ----
(***************************************************************************)
(* Model of abydos.distance.editex and abydos.distance.typo.               *)
(*                                                                         *)
(* A string is a sequence of characters; a character is a one-character    *)
(* TLA+ string, or "U+XXXX" for a code point outside ASCII.                *)
(*                                                                         *)
(* A returned number is kept exact as a fraction num/den.  np records      *)
(* whether Python holds it as a numpy scalar (a cell of d_mat) or as a     *)
(* builtin number: the two divide by zero differently.                     *)
(*                                                                         *)
(* Cost tuples hold half units: the default Editex cost (0, 1, 2) is       *)
(* <<0, 2, 4>> and the default typo cost (1, 1, 0.5, 0.5) is               *)
(* <<2, 2, 1, 1>>.                                                         *)
(***************************************************************************)
EXTENDS Integers, Sequences, FiniteSets, TLC

VARIABLES
    policy,   \* "editex" or "typo": the module the arguments are for
    src,      \* argument src
    tar,      \* argument tar
    cost,     \* argument cost
    local,    \* argument local (editex)
    metric,   \* argument metric (typo)
    layout,   \* argument layout (typo)
    char1,    \* first argument of a cost function called on its own
    char2,    \* second argument of a cost function called on its own
    pc,       \* "call" before the function runs, "done" after
    fn,       \* the function that ran
    result,   \* what it returned or raised
    d_mat,    \* the table of the call that is running; <<>> when none is
    loop_i,   \* the loop variable i of the loop that is running
    loop_j,   \* the loop variable j of the loop that is running
    prev      \* the call made before this one, with its outcome; NoCall if none

vars ==
    <<policy, src, tar, cost, local, metric, layout, char1, char2,
      pc, fn, result, d_mat, loop_i, loop_j, prev>>

\* Longest input string the model enumerates over its alphabets.
MaxLen == 2

----------------------------------------------------------------------------
(* Outcomes of a call. *)

Value(n, d, isnp) ==
    [kind |-> "value", num |-> n, den |-> d, np |-> isnp, exc |-> "", arg |-> ""]

Raise(e, a) ==
    [kind |-> "error", num |-> 0, den |-> 1, np |-> FALSE, exc |-> e, arg |-> a]

None == [kind |-> "none", num |-> 0, den |-> 1, np |-> FALSE, exc |-> "", arg |-> ""]

IsValue(r) == r.kind = "value"
IsError(r) == r.kind = "error"
\* A value that is a number: not the inf or nan numpy yields on division by 0.
IsFinite(r) == r.kind = "value" /\ r.den > 0
IsZero(r) == IsFinite(r) /\ r.num = 0

\* Comparisons of finite values, by cross multiplication.
ValEq(a, b) == IsFinite(a) /\ IsFinite(b) /\ a.num * b.den = b.num * a.den
ValLe(a, b) == IsFinite(a) /\ IsFinite(b) /\ a.num * b.den <= b.num * a.den
EqFrac(r, n, d) == IsFinite(r) /\ r.num * d = n * r.den

Max(a, b) == IF a >= b THEN a ELSE b
Min3(a, b, c) ==
    IF a <= b /\ a <= c THEN a ELSE IF b <= c THEN b ELSE c
Abs(x) == IF x < 0 THEN -x ELSE x

RECURSIVE GCD(_, _)
GCD(a, b) == IF b = 0 THEN a ELSE GCD(b, a % b)

\* x / y of Python 3 (true division) for x = xn/xd and y = yn/yd >= 0.
\* A numpy scalar divided by zero gives inf or nan (den = 0 here); a builtin
\* number divided by zero raises ZeroDivisionError.
\* The quotient is kept in lowest terms.
TrueDiv(x, yn, yd) ==
    IF yn = 0
    THEN IF x.np THEN Value(x.num, 0, TRUE) ELSE Raise("ZeroDivisionError", "")
    ELSE LET g == GCD(x.num * yd, x.den * yn)
         IN  Value((x.num * yd) \div g, (x.den * yn) \div g, x.np)

\* 1 - x.
OneMinus(x) ==
    IF ~IsValue(x) THEN x ELSE Value(x.den - x.num, x.den, x.np)

----------------------------------------------------------------------------
(* abydos/distance/editex.py *)

letter_groups ==
    << {"A", "E", "I", "O", "U", "Y"},
       {"B", "P"},
       {"C", "K", "Q"},
       {"D", "T"},
       {"L", "R"},
       {"M", "N"},
       {"G", "J"},
       {"F", "P", "V"},
       {"S", "X", "Z"},
       {"C", "S", "Z"} >>

all_letters ==
    {"A", "B", "C", "D", "E", "F", "G", "I", "J", "K", "L", "M",
     "N", "O", "P", "Q", "R", "S", "T", "U", "V", "X", "Y", "Z"}

match_cost(c) == c[1]
group_cost(c) == c[2]
mismatch_cost(c) == c[3]

\* r_cost with the letter groups left out.
r_cost_no_groups(ch1, ch2, c) ==
    IF ch1 = ch2 THEN match_cost(c) ELSE mismatch_cost(c)

\* r_cost charging the group cost once for every group the two share.
r_cost_counts_groups(ch1, ch2, c) ==
    IF ch1 = ch2 THEN match_cost(c)
    ELSE IF /\ ch1 \in all_letters
            /\ ch2 \in all_letters
            /\ \E g \in 1..Len(letter_groups) :
                   ch1 \in letter_groups[g] /\ ch2 \in letter_groups[g]
         THEN group_cost(c)
                * Cardinality({g \in 1..Len(letter_groups) :
                                 ch1 \in letter_groups[g]
                                 /\ ch2 \in letter_groups[g]})
         ELSE mismatch_cost(c)

r_cost(ch1, ch2, c) ==
    IF ch1 = ch2 THEN match_cost(c)
    ELSE IF /\ ch1 \in all_letters
            /\ ch2 \in all_letters
            /\ \E g \in 1..Len(letter_groups) :
                   ch1 \in letter_groups[g] /\ ch2 \in letter_groups[g]
         THEN group_cost(c)
         ELSE mismatch_cost(c)

\* d_cost looking for H or W in the second character.
d_cost_second_char(ch1, ch2, c) ==
    IF ch1 # ch2 /\ (ch2 = "H" \/ ch2 = "W") THEN group_cost(c)
    ELSE r_cost(ch1, ch2, c)

d_cost(ch1, ch2, c) ==
    IF ch1 # ch2 /\ (ch1 = "H" \/ ch1 = "W") THEN group_cost(c)
    ELSE r_cost(ch1, ch2, c)

LowerCase ==
    << "a", "b", "c", "d", "e", "f", "g", "h", "i", "j", "k", "l", "m",
       "n", "o", "p", "q", "r", "s", "t", "u", "v", "w", "x", "y", "z" >>
UpperCase ==
    << "A", "B", "C", "D", "E", "F", "G", "H", "I", "J", "K", "L", "M",
       "N", "O", "P", "Q", "R", "S", "T", "U", "V", "W", "X", "Y", "Z" >>

\* str.upper() of one character: U+00DF (eszett) uppercases to "SS",
\* U+00E9 (e acute) to U+00C9.
char_upper(ch) ==
    IF \E k \in 1..26 : LowerCase[k] = ch
    THEN << UpperCase[CHOOSE k \in 1..26 : LowerCase[k] = ch] >>
    ELSE IF ch = "U+00DF" THEN << "S", "S" >>
    ELSE IF ch = "U+00E9" THEN << "U+00C9" >>
    ELSE << ch >>

\* unicodedata.normalize('NFKD', .) of one character: an accented letter
\* becomes the letter followed by the combining accent (U+0301).
char_nfkd(ch) ==
    IF ch = "U+00C9" THEN << "E", "U+0301" >>
    ELSE IF ch = "U+00E9" THEN << "e", "U+0301" >>
    ELSE << ch >>

\* str.replace('ß', 'SS') on one character.
char_replace(ch) == IF ch = "U+00DF" THEN << "S", "S" >> ELSE << ch >>

RECURSIVE upper(_)
upper(s) == IF s = <<>> THEN <<>> ELSE char_upper(Head(s)) \o upper(Tail(s))

RECURSIVE unicode_normalize(_)
unicode_normalize(s) ==
    IF s = <<>> THEN <<>> ELSE char_nfkd(Head(s)) \o unicode_normalize(Tail(s))

RECURSIVE replace_eszett(_)
replace_eszett(s) ==
    IF s = <<>> THEN <<>> ELSE char_replace(Head(s)) \o replace_eszett(Tail(s))

\* Lines 92-97 of editex: upper, NFKD, eszett to SS.
editex_normalize(s) == replace_eszett(unicode_normalize(upper(s)))

\* Assignment to a cell of an np_int matrix truncates towards zero; h is in
\* half units.
np_int(h) == IF h >= 0 THEN h \div 2 ELSE -((-h) \div 2)

\* A table of ones where np_zeros gives zeros.
np_ones(m, n) == [ij \in (0..m) \X (0..n) |-> 1]

\* d_mat = np_zeros((len(src)+1, len(tar)+1)).
np_zeros(m, n) == [ij \in (0..m) \X (0..n) |-> 0]

\* ' '+s: Python's s[i] of the prefixed string is Prefixed(s)[i+1].
Prefixed(s) == << " " >> \o s

\* Column 0 left as np_zeros made it.
editex_col0_unwritten(d, s, c, i) == d

\* for i in range(1, lens+1): d_mat[i, 0] = d_mat[i-1, 0] + d_cost(...)
RECURSIVE editex_col0(_, _, _, _)
editex_col0(d, s, c, i) ==
    IF <<i, 0>> \notin DOMAIN d THEN d
    ELSE editex_col0(
           [d EXCEPT ![<<i, 0>>] =
               np_int(2 * d[<<i - 1, 0>>] + d_cost(s[i], s[i + 1], c))],
           s, c, i + 1)

\* Row 0 left as np_zeros made it.
editex_row0_unwritten(d, t, c, j) == d

\* for j in range(1, lent+1): d_mat[0, j] = d_mat[0, j-1] + d_cost(...)
RECURSIVE editex_row0(_, _, _, _)
editex_row0(d, t, c, j) ==
    IF <<0, j>> \notin DOMAIN d THEN d
    ELSE editex_row0(
           [d EXCEPT ![<<0, j>>] =
               np_int(2 * d[<<0, j - 1>>] + d_cost(t[j], t[j + 1], c))],
           t, c, j + 1)

\* The body of the interior loop for cell (i, j); s and t carry the blank.
editex_cell(d, s, t, c, i, j) ==
    np_int(Min3(2 * d[<<i - 1, j>>] + d_cost(s[i], s[i + 1], c),
                2 * d[<<i, j - 1>>] + d_cost(t[j], t[j + 1], c),
                2 * d[<<i - 1, j - 1>>] + r_cost(s[i + 1], t[j + 1], c)))

\* The interior loops from cell k of the row-major order (i outer, j inner);
\* the fill ends when the cell is past the last row of the table.
RECURSIVE editex_interior(_, _, _, _, _)
editex_interior(d, s, t, c, k) ==
    LET lent == Len(t) - 1
        i == (k \div lent) + 1
        j == (k % lent) + 1
    IN  IF <<i, j>> \notin DOMAIN d THEN d
        ELSE editex_interior(
               [d EXCEPT ![<<i, j>>] = editex_cell(d, s, t, c, i, j)],
               s, t, c, k + 1)

\* editex_d_mat with the test of local inverted.
editex_d_mat_inverted_local(s, t, c, loc) ==
    LET sp == Prefixed(s)
        tp == Prefixed(t)
        d0 == np_zeros(Len(s), Len(t))
        d1 == IF loc THEN editex_col0(d0, sp, c, 1) ELSE d0
        d2 == editex_row0(d1, tp, c, 1)
    IN  editex_interior(d2, sp, tp, c, 0)

\* editex_d_mat with column 0 initialised whatever local is.
editex_d_mat_always_col0(s, t, c, loc) ==
    LET sp == Prefixed(s)
        tp == Prefixed(t)
        d0 == np_zeros(Len(s), Len(t))
        d1 == editex_col0(d0, sp, c, 1)
        d2 == editex_row0(d1, tp, c, 1)
    IN  editex_interior(d2, sp, tp, c, 0)

\* Lines 106-122: the filled table for normalized, distinct, non-empty s, t.
editex_d_mat(s, t, c, loc) ==
    LET sp == Prefixed(s)
        tp == Prefixed(t)
        d0 == np_zeros(Len(s), Len(t))
        d1 == IF ~loc THEN editex_col0(d0, sp, c, 1) ELSE d0
        d2 == editex_row0(d1, tp, c, 1)
    IN  editex_interior(d2, sp, tp, c, 0)

\* editex with the test src == tar made before the normalization.
editex_raw_equality(s0, t0, c, loc) ==
    IF Len(c) # 3 THEN Raise("ValueError", "unpack")
    ELSE LET s == editex_normalize(s0)
             t == editex_normalize(t0)
         IN  IF s0 = t0 THEN Value(0, 1, FALSE)
             ELSE IF s = <<>> THEN Value(Len(t) * mismatch_cost(c), 2, FALSE)
             ELSE IF t = <<>> THEN Value(Len(s) * mismatch_cost(c), 2, FALSE)
             ELSE Value(editex_d_mat(s, t, c, loc)[<<Len(s), Len(t)>>], 1, TRUE)

editex(s0, t0, c, loc) ==
    IF Len(c) # 3 THEN Raise("ValueError", "unpack")
    ELSE LET s == editex_normalize(s0)
             t == editex_normalize(t0)
         IN  IF s = t THEN Value(0, 1, FALSE)
             ELSE IF s = <<>> THEN Value(Len(t) * mismatch_cost(c), 2, FALSE)
             ELSE IF t = <<>> THEN Value(Len(s) * mismatch_cost(c), 2, FALSE)
             ELSE Value(editex_d_mat(s, t, c, loc)[<<Len(s), Len(t)>>], 1, TRUE)

dist_editex(s0, t0, c, loc) ==
    IF s0 = t0 THEN Value(0, 1, FALSE)
    ELSE IF Len(c) < 3 THEN Raise("IndexError", "cost[2]")
    ELSE LET e == editex(s0, t0, c, loc)
         IN  IF IsError(e) THEN e
             ELSE TrueDiv(e, Max(Len(s0) * c[3], Len(t0) * c[3]), 2)

\* sim_editex that does not pass local on.
sim_editex_drops_local(s0, t0, c, loc) ==
    OneMinus(dist_editex(s0, t0, c, FALSE))

sim_editex(s0, t0, c, loc) == OneMinus(dist_editex(s0, t0, c, loc))

----------------------------------------------------------------------------
(* abydos/distance/typo.py *)

\* The four layouts of kbs: <<unshifted table, shifted table>>, each of four
\* rows; "" is an empty placeholder slot.  U+0060 is the backtick, U+0027
\* the apostrophe, U+0022 the double quote and U+005C the backslash.
kb_QWERTY ==
    << <<
         << "U+0060", "1", "2", "3", "4", "5", "6", "7", "8", "9", "0", "-",
            "=" >>,
         << "", "q", "w", "e", "r", "t", "y", "u", "i", "o", "p", "[",
            "]", "U+005C" >>,
         << "", "a", "s", "d", "f", "g", "h", "j", "k", "l", ";", "U+0027" >>,
         << "", "z", "x", "c", "v", "b", "n", "m", ",", ".", "/" >>
       >>,
       <<
         << "~", "!", "@", "#", "$", "%", "^", "&", "*", "(", ")", "_",
            "+" >>,
         << "", "Q", "W", "E", "R", "T", "Y", "U", "I", "O", "P", "{",
            "}", "|" >>,
         << "", "A", "S", "D", "F", "G", "H", "J", "K", "L", ":", "U+0022" >>,
         << "", "Z", "X", "C", "V", "B", "N", "M", "<", ">", "?" >>
       >> >>

kb_Dvorak ==
    << <<
         << "U+0060", "1", "2", "3", "4", "5", "6", "7", "8", "9", "0", "[",
            "]" >>,
         << "", "U+0027", ",", ".", "p", "y", "f", "g", "c", "r", "l", "/",
            "=", "U+005C" >>,
         << "", "a", "o", "e", "u", "i", "d", "h", "t", "n", "s", "-" >>,
         << "", ";", "q", "j", "k", "x", "b", "m", "w", "v", "z" >>
       >>,
       <<
         << "~", "!", "@", "#", "$", "%", "^", "&", "*", "(", ")", "{",
            "}" >>,
         << "", "U+0022", "<", ">", "P", "Y", "F", "G", "C", "R", "L", "?",
            "+", "|" >>,
         << "", "A", "O", "E", "U", "I", "D", "H", "T", "N", "S", "_" >>,
         << "", ":", "Q", "J", "K", "X", "B", "M", "W", "V", "Z" >>
       >> >>

kb_AZERTY ==
    << <<
         << "U+00B2", "&", "U+00E9", "U+0022", "U+0027", "(", "-",
            "U+00E8", "_",
            "U+00E7", "U+00E0", ")", "=" >>,
         << "", "a", "z", "e", "r", "t", "y", "u", "i", "o", "p", "", "$" >>,
         << "", "q", "s", "d", "f", "g", "h", "j", "k", "l", "m",
            "U+00F9", "*" >>,
         << "<", "w", "x", "c", "v", "b", "n", ",", ";", ":", "!" >>
       >>,
       <<
         << "~", "1", "2", "3", "4", "5", "6", "7", "8", "9", "0",
            "U+00B0", "+" >>,
         << "", "A", "W", "E", "R", "T", "Y", "U", "I", "O", "P", "",
            "U+00A3" >>,
         << "", "Q", "S", "D", "F", "G", "H", "J", "K", "L", "M",
            "U+00D9", "U+03BC" >>,
         << ">", "W", "X", "C", "V", "B", "N", "?", ".", "/", "U+00A7" >>
       >> >>

kb_QWERTZ ==
    << <<
         << "", "1", "2", "3", "4", "5", "6", "7", "8", "9", "0",
            "U+00DF", "" >>,
         << "", "q", "w", "e", "r", "t", "z", "u", "i", "o", "p",
            " U+00FC", "+", "U+005C" >>,
         << "", "a", "s", "d", "f", "g", "h", "j", "k", "l", "U+00F6",
            "U+00E4", "#" >>,
         << "<", "y", "x", "c", "v", "b", "n", "m", ",", ".", "-" >>
       >>,
       <<
         << "U+00B0", "!", "U+0022", "U+00A7", "$", "%", "&", "/", "(", ")",
            "=", "?", "" >>,
         << "", "Q", "W", "E", "R", "T", "Z", "U", "I", "O", "P",
            "U+00DC", "*", "" >>,
         << "", "A", "S", "D", "F", "G", "H", "J", "K", "L", "U+00D6",
            "U+00C4", "U+0027" >>,
         << ">", "Y", "X", "C", "V", "B", "N", "M", ";", ":", "_" >>
       >> >>

Layouts == {"QWERTY", "Dvorak", "AZERTY", "QWERTZ"}

\* kbs[layout], for layout \in Layouts.
kbs(lay) ==
    CASE lay = "QWERTY" -> kb_QWERTY
      [] lay = "Dvorak" -> kb_Dvorak
      [] lay = "AZERTY" -> kb_AZERTY
      [] lay = "QWERTZ" -> kb_QWERTZ

\* The keys of metric_dict.
Metrics == {"euclidean", "manhattan", "log-euclidean", "log-manhattan"}

ins_cost(c) == c[1]
del_cost(c) == c[2]
sub_cost(c) == c[3]
shift_cost(c) == c[4]

SetOf(row) == {row[k] : k \in 1..Len(row)}

\* {item for sublist in keyboard[0] for item in sublist}
lowercase(keyboard) == UNION {SetOf(keyboard[1][r]) : r \in 1..Len(keyboard[1])}
\* {item for sublist in keyboard[1] for item in sublist}
uppercase(keyboard) == UNION {SetOf(keyboard[2][r]) : r \in 1..Len(keyboard[2])}

\* found = FALSE stands for the ValueError the function raises.
kb_array_for_char(ch, keyboard) ==
    IF ch \in lowercase(keyboard) THEN [found |-> TRUE, kb |-> keyboard[1]]
    ELSE IF ch \in uppercase(keyboard) THEN [found |-> TRUE, kb |-> keyboard[2]]
    ELSE [found |-> FALSE, kb |-> <<>>]

\* First index of x in seq (list.index), for x in seq.
IndexOf(seq, x) ==
    CHOOSE k \in 1..Len(seq) : seq[k] = x /\ \A q \in 1..(k - 1) : seq[q] # x

\* <<row, column>>, zero-based, of ch in the first row of kb_array holding it.
get_char_coord(ch, kb_array) ==
    LET r == CHOOSE r \in 1..Len(kb_array) :
                 /\ ch \in SetOf(kb_array[r])
                 /\ \A q \in 1..(r - 1) : ch \notin SetOf(kb_array[q])
        row == kb_array[r]
    IN  << IndexOf(kb_array, row) - 1, IndexOf(row, ch) - 1 >>

\* Keyboard distances are kept in units of 1/MetricUnit, rounded down.
MetricUnit == 1000

RECURSIVE IsqrtBetween(_, _, _)
IsqrtBetween(n, lo, hi) ==
    IF lo = hi THEN lo
    ELSE LET mid == (lo + hi + 1) \div 2
         IN  IF mid * mid <= n THEN IsqrtBetween(n, mid, hi)
             ELSE IsqrtBetween(n, lo, mid - 1)

\* floor(sqrt(n)), 0 <= n < 2^31.
Isqrt(n) == IsqrtBetween(n, 0, 46340)

\* floor(1000 * ln(1 + sqrt(q))) at index q + 1, for q in 0..256.
LnTable ==
    << 0, 693, 881, 1005, 1098, 1174, 1238, 1293, 1342, 1386, 1426, 1462,
       1496, 1527, 1556, 1583, 1609, 1633, 1656, 1678, 1699, 1719, 1738,
       1757, 1774, 1791, 1808, 1823, 1839, 1853, 1868, 1882, 1895, 1908,
       1921, 1933, 1945, 1957, 1969, 1980, 1991, 2001, 2012, 2022, 2032,
       2042, 2051, 2061, 2070, 2079, 2088, 2096, 2105, 2113, 2122, 2130,
       2138, 2145, 2153, 2161, 2168, 2175, 2183, 2190, 2197, 2204, 2210,
       2217, 2224, 2230, 2237, 2243, 2249, 2255, 2262, 2268, 2273, 2279,
       2285, 2291, 2296, 2302, 2308, 2313, 2318, 2324, 2329, 2334, 2339,
       2345, 2350, 2355, 2360, 2364, 2369, 2374, 2379, 2384, 2388, 2393,
       2397, 2402, 2406, 2411, 2415, 2420, 2424, 2428, 2432, 2437, 2441,
       2445, 2449, 2453, 2457, 2461, 2465, 2469, 2473, 2477, 2481, 2484,
       2488, 2492, 2496, 2499, 2503, 2507, 2510, 2514, 2517, 2521, 2524,
       2528, 2531, 2535, 2538, 2541, 2545, 2548, 2551, 2555, 2558, 2561,
       2564, 2568, 2571, 2574, 2577, 2580, 2583, 2586, 2589, 2592, 2595,
       2598, 2601, 2604, 2607, 2610, 2613, 2616, 2619, 2622, 2625, 2627,
       2630, 2633, 2636, 2639, 2641, 2644, 2647, 2649, 2652, 2655, 2657,
       2660, 2663, 2665, 2668, 2670, 2673, 2676, 2678, 2681, 2683, 2686,
       2688, 2691, 2693, 2695, 2698, 2700, 2703, 2705, 2708, 2710, 2712,
       2715, 2717, 2719, 2722, 2724, 2726, 2729, 2731, 2733, 2735, 2738,
       2740, 2742, 2744, 2746, 2749, 2751, 2753, 2755, 2757, 2759, 2762,
       2764, 2766, 2768, 2770, 2772, 2774, 2776, 2778, 2780, 2782, 2784,
       2786, 2788, 2790, 2792, 2794, 2796, 2798, 2800, 2802, 2804, 2806,
       2808, 2810, 2812, 2814, 2816, 2818, 2820, 2822, 2823, 2825, 2827,
       2829, 2831, 2833 >>

\* (row1 - row2) ** 2 + (col1 - col2) ** 2
SquaredDistance(ch1, ch2, keyboard) ==
    LET p1 == get_char_coord(ch1, kb_array_for_char(ch1, keyboard).kb)
        p2 == get_char_coord(ch2, kb_array_for_char(ch2, keyboard).kb)
    IN  (p1[1] - p2[1]) * (p1[1] - p2[1]) + (p1[2] - p2[2]) * (p1[2] - p2[2])

euclidean_keyboard_distance(ch1, ch2, keyboard) ==
    Isqrt(SquaredDistance(ch1, ch2, keyboard) * MetricUnit * MetricUnit)

\* The Manhattan distance with the row difference left out.
ManhattanKeys_columns_only(ch1, ch2, keyboard) ==
    LET p1 == get_char_coord(ch1, kb_array_for_char(ch1, keyboard).kb)
        p2 == get_char_coord(ch2, kb_array_for_char(ch2, keyboard).kb)
    IN  Abs(p1[2] - p2[2])

\* abs(row1 - row2) + abs(col1 - col2), in whole keys.
ManhattanKeys(ch1, ch2, keyboard) ==
    LET p1 == get_char_coord(ch1, kb_array_for_char(ch1, keyboard).kb)
        p2 == get_char_coord(ch2, kb_array_for_char(ch2, keyboard).kb)
    IN  Abs(p1[1] - p2[1]) + Abs(p1[2] - p2[2])

manhattan_keyboard_distance(ch1, ch2, keyboard) ==
    MetricUnit * ManhattanKeys(ch1, ch2, keyboard)

log_euclidean_keyboard_distance(ch1, ch2, keyboard) ==
    LnTable[SquaredDistance(ch1, ch2, keyboard) + 1]

log_manhattan_keyboard_distance(ch1, ch2, keyboard) ==
    LnTable[ManhattanKeys(ch1, ch2, keyboard)
              * ManhattanKeys(ch1, ch2, keyboard) + 1]

\* metric_dict[metric](char1, char2), for metric \in Metrics.
metric_dict(m, ch1, ch2, keyboard) ==
    CASE m = "euclidean" -> euclidean_keyboard_distance(ch1, ch2, keyboard)
      [] m = "manhattan" -> manhattan_keyboard_distance(ch1, ch2, keyboard)
      [] m = "log-euclidean" ->
             log_euclidean_keyboard_distance(ch1, ch2, keyboard)
      [] m = "log-manhattan" ->
             log_manhattan_keyboard_distance(ch1, ch2, keyboard)

\* Cells of the typo table, and substitution costs, are in units of
\* 1/TableUnit: a cost of h half units is h * (TableUnit / 2).
TableUnit == 4 * MetricUnit
HalfUnits(h) == h * 2 * MetricUnit

\* _substitution_cost without the shift term.
substitution_cost_no_shift(ch1, ch2, m, c, keyboard) ==
    IF m \notin Metrics THEN Raise("KeyError", m)
    ELSE IF ~kb_array_for_char(ch1, keyboard).found THEN Raise("ValueError", ch1)
    ELSE IF ~kb_array_for_char(ch2, keyboard).found THEN Raise("ValueError", ch2)
    ELSE Value(sub_cost(c) * 2 * metric_dict(m, ch1, ch2, keyboard),
               TableUnit, TRUE)

\* _substitution_cost charging the shift only when char1 is the shifted one.
substitution_cost_shift_first(ch1, ch2, m, c, keyboard) ==
    IF m \notin Metrics THEN Raise("KeyError", m)
    ELSE IF ~kb_array_for_char(ch1, keyboard).found THEN Raise("ValueError", ch1)
    ELSE IF ~kb_array_for_char(ch2, keyboard).found THEN Raise("ValueError", ch2)
    ELSE Value(sub_cost(c)
                 * (2 * metric_dict(m, ch1, ch2, keyboard)
                    + MetricUnit * shift_cost(c)
                      * (IF /\ kb_array_for_char(ch1, keyboard).kb = keyboard[2]
                            /\ kb_array_for_char(ch2, keyboard).kb # keyboard[2]
                         THEN 1 ELSE 0)),
               TableUnit, TRUE)

\* sub_cost * (metric + shift_cost * (the two shift tables differ)); the
\* metric lookup comes first, then char1's table, then char2's.
substitution_cost(ch1, ch2, m, c, keyboard) ==
    IF m \notin Metrics THEN Raise("KeyError", m)
    ELSE IF ~kb_array_for_char(ch1, keyboard).found THEN Raise("ValueError", ch1)
    ELSE IF ~kb_array_for_char(ch2, keyboard).found THEN Raise("ValueError", ch2)
    ELSE Value(sub_cost(c)
                 * (2 * metric_dict(m, ch1, ch2, keyboard)
                    + MetricUnit * shift_cost(c)
                      * (IF kb_array_for_char(ch1, keyboard).kb
                            # kb_array_for_char(ch2, keyboard).kb
                         THEN 1 ELSE 0)),
               TableUnit, TRUE)

\* The boundary with column 0 at the insert cost too.
typo_boundary_insert_only(m, n, c) ==
    [ij \in (0..m) \X (0..n) |->
        IF ij[1] = 0 THEN HalfUnits(ij[2] * ins_cost(c))
        ELSE IF ij[2] = 0 THEN HalfUnits(ij[1] * ins_cost(c))
        ELSE 0]

\* for i in range(len(src) + 1): d_mat[i, 0] = i * del_cost
\* for j in range(len(tar) + 1): d_mat[0, j] = j * ins_cost
typo_boundary(m, n, c) ==
    [ij \in (0..m) \X (0..n) |->
        IF ij[1] = 0 THEN HalfUnits(ij[2] * ins_cost(c))
        ELSE IF ij[2] = 0 THEN HalfUnits(ij[1] * del_cost(c))
        ELSE 0]

\* The interior loops from cell k of the row-major order (i outer, j inner);
\* err is the exception that ended the fill, if any.
RECURSIVE typo_interior(_, _, _, _, _, _, _)
typo_interior(d, s, t, m, c, keyboard, k) ==
    LET i == k \div Len(t)
        j == k % Len(t)
        sc == IF s[i + 1] # t[j + 1]
              THEN substitution_cost(s[i + 1], t[j + 1], m, c, keyboard)
              ELSE Value(0, TableUnit, FALSE)
    IN  IF <<i + 1, j + 1>> \notin DOMAIN d THEN [err |-> None, d_mat |-> d]
        ELSE IF IsError(sc) THEN [err |-> sc, d_mat |-> d]
        ELSE typo_interior(
               [d EXCEPT ![<<i + 1, j + 1>>] =
                   Min3(d[<<i + 1, j>>] + HalfUnits(ins_cost(c)),
                        d[<<i, j + 1>>] + HalfUnits(del_cost(c)),
                        d[<<i, j>>] + sc.num)],
               s, t, m, c, keyboard, k + 1)

\* typo with the insert and delete costs of the empty-input returns swapped.
typo_swapped_empty(s, t, m, c, lay) ==
    IF Len(c) # 4 THEN Raise("ValueError", "unpack")
    ELSE IF s = t THEN Value(0, 1, FALSE)
    ELSE IF s = <<>> THEN Value(Len(t) * del_cost(c), 2, FALSE)
    ELSE IF t = <<>> THEN Value(Len(s) * ins_cost(c), 2, FALSE)
    ELSE IF lay \notin Layouts THEN Raise("KeyError", lay)
    ELSE LET f == typo_interior(typo_boundary(Len(s), Len(t), c),
                                s, t, m, c, kbs(lay), 0)
         IN  IF IsError(f.err) THEN f.err
             ELSE Value(f.d_mat[<<Len(s), Len(t)>>], TableUnit, TRUE)

typo(s, t, m, c, lay) ==
    IF Len(c) # 4 THEN Raise("ValueError", "unpack")
    ELSE IF s = t THEN Value(0, 1, FALSE)
    ELSE IF s = <<>> THEN Value(Len(t) * ins_cost(c), 2, FALSE)
    ELSE IF t = <<>> THEN Value(Len(s) * del_cost(c), 2, FALSE)
    ELSE IF lay \notin Layouts THEN Raise("KeyError", lay)
    ELSE LET f == typo_interior(typo_boundary(Len(s), Len(t), c),
                                s, t, m, c, kbs(lay), 0)
         IN  IF IsError(f.err) THEN f.err
             ELSE Value(f.d_mat[<<Len(s), Len(t)>>], TableUnit, TRUE)

dist_typo(s, t, m, c) ==
    IF s = t THEN Value(0, 1, FALSE)
    ELSE IF Len(c) < 2 THEN Raise("ValueError", "unpack")
    ELSE LET r == typo(s, t, m, c, "QWERTY")
         IN  IF IsError(r) THEN r
             ELSE TrueDiv(r, Max(Len(s) * del_cost(c), Len(t) * ins_cost(c)), 2)

sim_typo(s, t, m, c) == OneMinus(dist_typo(s, t, m, c))

----------------------------------------------------------------------------
(* The calls the model makes. *)

\* The strings of the docstrings.
Str_cat == <<"c", "a", "t">>
Str_hat == <<"h", "a", "t">>
Str_Niall == <<"N", "i", "a", "l", "l">>
Str_Neil == <<"N", "e", "i", "l">>
Str_ATCG == <<"A", "T", "C", "G">>
Str_TAGC == <<"T", "A", "G", "C">>
Str_aluminum == <<"a", "l", "u", "m", "i", "n", "u", "m">>
Str_Catalan == <<"C", "a", "t", "a", "l", "a", "n">>

Strings(chars) == UNION {[1..k -> chars] : k \in 0..MaxLen}

\* a: a letter; h: the letter d_cost singles out; U+00E9 (e acute): a
\* letter NFKD decomposes into two characters, the first in a's group.
EditexChars == {"a", "h", "U+00E9"}

\* The docstring's pairs, pairs that differ in case only, and pairs with
\* an eszett.
EditexScenarios ==
    { <<<<"c", "a", "t">>, <<"h", "a", "t">>>>,
      <<<<"N", "i", "a", "l", "l">>, <<"N", "e", "i", "l">>>>,
      <<<<"A", "T", "C", "G">>, <<"T", "A", "G", "C">>>>,
      <<<<"a", "l", "u", "m", "i", "n", "u", "m">>, <<"C", "a", "t", "a", "l", "a", "n">>>>,
      <<<<>>, <<"a", "b", "c">>>>,
      <<<<"a">>, <<"A">>>>,
      <<<<"A", "h">>, <<"a", "H">>>>,
      <<<<"U+00DF">>, <<"s", "s">>>>,
      <<<<"U+00DF">>, <<"s">>>>,
      <<<<"U+00DF">>, <<>>>>,
      <<<<" ", "a">>, <<"a">>>> }

EditexPairs ==
    (Strings(EditexChars) \X Strings(EditexChars)) \cup EditexScenarios

\* (0, 1, 2), the default; (0, 0.5, 1.5); (1, 1, 1); (0, 1, 0).
EditexDefaultCost == <<0, 2, 4>>
EditexCosts == {EditexDefaultCost, <<0, 1, 3>>, <<2, 2, 2>>, <<0, 2, 0>>}

\* Tuples that are no cost tuple: (0, 1) and (0, 1, 2, 1) have the wrong
\* arity, (0, -1, 2) has a negative component.
EditexBadCosts == {<<0, 2>>, <<0, 2, 4, 2>>, <<0, -2, 4>>}

\* The strings of at most one character.
ShortStrings(chars) == {<<>>} \cup {<<ch>> : ch \in chars}

\* The pairs the malformed cost tuples are tried on.
EditexShortPairs == ShortStrings({"a", "h"}) \X ShortStrings({"a", "h"})

\* a: an unshifted key; P: a shifted key far from it; U+20AC (the euro
\* sign): a character on none of the four layouts.
TypoChars == {"a", "P", "U+20AC"}

TypoScenarios ==
    { <<<<"c", "a", "t">>, <<"h", "a", "t">>>>,
      <<<<"A", "T", "C", "G">>, <<"T", "A", "G", "C">>>>,
      <<<<"N", "i", "a", "l", "l">>, <<"N", "e", "i", "l">>>>,
      <<<<"a">>, <<"p">>>>,
      <<<<"a">>, <<"A">>>>,
      <<<<"a", "a">>, <<"a", "b">>>> }

TypoPairs == (Strings(TypoChars) \X Strings(TypoChars)) \cup TypoScenarios

\* (1, 1, 0.5, 0.5), the default; (1, 2, 0.5, 0.5); (0, 0, 0.5, 0.5).
TypoDefaultCost == <<2, 2, 1, 1>>
TypoCosts == {TypoDefaultCost, <<2, 4, 1, 1>>, <<0, 0, 1, 1>>}

\* (1,), (1, 1, 0.5) and (1, 1, 0.5, 0.5, 0.5) have the wrong arity,
\* (1, 1, -0.5, 0.5) has a negative component.
TypoBadCosts == {<<2>>, <<2, 2, 1>>, <<2, 2, 1, 1, 1>>, <<2, 2, -1, 1>>}

TypoShortPairs == ShortStrings({"a", "P"}) \X ShortStrings({"a", "P"})

\* The supported names and one that is not: every metric on the default
\* layout, and every layout under the default metric and under manhattan.
MetricArgs == Metrics \cup {"bogus"}
LayoutArgs == Layouts \cup {"bogus"}
TypoConfigs ==
    (MetricArgs \X {"QWERTY"}) \cup ({"euclidean", "manhattan"} \X LayoutArgs)

\* A cost tuple as the functions expect it.
NonNegative(c) == \A k \in 1..Len(c) : c[k] >= 0
EditexCostOk(c) == Len(c) = 3 /\ NonNegative(c)
TypoCostOk(c) == Len(c) = 4 /\ NonNegative(c)

\* No call has been made before this one.
NoCall ==
    [fn |-> "", src |-> <<>>, tar |-> <<>>, cost |-> <<>>, local |-> FALSE,
     metric |-> "", layout |-> "", result |-> None]

\* The state before a call of an Editex function with arguments from the
\* given sets.
EditexArgs(pairs, costs) ==
    /\ policy = "editex"
    /\ \E p \in pairs : src = p[1] /\ tar = p[2]
    /\ cost \in costs
    /\ local \in BOOLEAN
    /\ metric = "euclidean"
    /\ layout = "QWERTY"

\* The state before a call of a typo function.
TypoArgs(pairs, costs, configs) ==
    /\ policy = "typo"
    /\ \E p \in pairs : src = p[1] /\ tar = p[2]
    /\ cost \in costs
    /\ local = FALSE
    /\ \E mc \in configs : metric = mc[1] /\ layout = mc[2]

\* Nothing is running: no table, no loop.
Idle ==
    /\ pc = "call"
    /\ fn = ""
    /\ result = None
    /\ d_mat = <<>>
    /\ loop_i = 0
    /\ loop_j = 0

Init ==
    /\ Idle
    /\ prev = NoCall
    /\ char1 = "" /\ char2 = ""
    /\ \/ EditexArgs(EditexPairs, EditexCosts)
       \/ EditexArgs(EditexShortPairs, EditexBadCosts)
       \/ TypoArgs(TypoPairs, TypoCosts, TypoConfigs)
       \/ TypoArgs(TypoShortPairs, TypoBadCosts, TypoConfigs)

Return(f, r) ==
    /\ pc' = "done"
    /\ fn' = f
    /\ result' = r
    /\ UNCHANGED <<policy, src, tar, cost, local, metric, layout, char1, char2,
                   d_mat, loop_i, loop_j, prev>>

CallEditex ==
    /\ pc = "call" /\ policy = "editex"
    /\ Return("editex", editex(src, tar, cost, local))

CallDistEditex ==
    /\ pc = "call" /\ policy = "editex"
    /\ Return("dist_editex", dist_editex(src, tar, cost, local))

CallSimEditex ==
    /\ pc = "call" /\ policy = "editex"
    /\ Return("sim_editex", sim_editex(src, tar, cost, local))

CallTypo ==
    /\ pc = "call" /\ policy = "typo"
    /\ Return("typo", typo(src, tar, metric, cost, layout))

\* dist_typo and sim_typo take no layout: typo runs with its default.
CallDistTypo ==
    /\ pc = "call" /\ policy = "typo" /\ layout = "QWERTY"
    /\ Return("dist_typo", dist_typo(src, tar, metric, cost))

CallSimTypo ==
    /\ pc = "call" /\ policy = "typo" /\ layout = "QWERTY"
    /\ Return("sim_typo", sim_typo(src, tar, metric, cost))

Next ==
    \/ CallEditex
    \/ CallDistEditex
    \/ CallSimEditex
    \/ CallTypo
    \/ CallDistTypo
    \/ CallSimTypo

Spec == Init /\ [][Next]_vars

Done(f) == pc = "done" /\ fn = f

----------------------------------------------------------------------------
(* The cost functions, called on their own: r_cost and d_cost of editex,   *)
(* _substitution_cost of typo.                                             *)

\* The symbols a normalized string is made of: the upper-case letters, the
\* blank editex puts in front, a combining accent and a digit.
EditexSymbols == SetOf(UpperCase) \cup {" ", "U+0301", "1"}

\* Keys of the four layouts in both shift states, among them the W that
\* AZERTY holds twice, and the euro sign, which is on none.
TypoKeys ==
    {"a", "A", "q", "Q", "w", "W", "z", "p", "P", "1", "!", ";", "m", "/",
     "U+00E9", "U+0027", "U+20AC"}

CostInit ==
    /\ Idle
    /\ prev = NoCall
    /\ src = <<>> /\ tar = <<>> /\ local = FALSE
    /\ \/ /\ policy = "editex"
          /\ cost \in EditexCosts
          /\ char1 \in EditexSymbols /\ char2 \in EditexSymbols
          /\ metric = "euclidean" /\ layout = "QWERTY"
       \/ /\ policy = "typo"
          /\ cost \in TypoCosts
          /\ char1 \in TypoKeys /\ char2 \in TypoKeys
          /\ metric \in MetricArgs /\ layout \in Layouts

\* A cost in half units, as the number Python holds.
HalfValue(h) == Value(h, 2, FALSE)

Call_r_cost ==
    /\ pc = "call" /\ policy = "editex"
    /\ Return("r_cost", HalfValue(r_cost(char1, char2, cost)))

Call_d_cost ==
    /\ pc = "call" /\ policy = "editex"
    /\ Return("d_cost", HalfValue(d_cost(char1, char2, cost)))

Call_substitution_cost ==
    /\ pc = "call" /\ policy = "typo"
    /\ Return("_substitution_cost",
              substitution_cost(char1, char2, metric, cost, kbs(layout)))

CostNext ==
    \/ Call_r_cost
    \/ Call_d_cost
    \/ Call_substitution_cost

CostSpec == CostInit /\ [][CostNext]_vars

----------------------------------------------------------------------------
(* The six functions, one statement of the table fill at a time.           *)
(* pc is "call" before the call, the name of the loop that is running      *)
(* ("col0", "row0", "boundary_i", "boundary_j", "interior"), "return" at   *)
(* the return statement after the loops, and "done" after the call; at     *)
(* "done" the table, a local of the call, is gone.  dist_editex and        *)
(* sim_editex run the fill of editex and divide what it returns, dist_typo *)
(* and sim_typo that of typo.                                              *)

\* The arguments of the call: no statement assigns them.
Args == <<policy, src, tar, cost, local, metric, layout, char1, char2>>

\* src and tar as the loops of editex index them (editex.py:93-97, 109-110).
EditexSrc == Prefixed(editex_normalize(src))
EditexTar == Prefixed(editex_normalize(tar))
\* lens and lent of editex.
EditexLens == Len(editex_normalize(src))
EditexLent == Len(editex_normalize(tar))

\* editex gets past its early returns and allocates the table.
EditexRunsDP ==
    /\ Len(cost) = 3
    /\ editex_normalize(src) # editex_normalize(tar)
    /\ editex_normalize(src) # <<>>
    /\ editex_normalize(tar) # <<>>

\* typo gets past its early returns and its layout lookup.
TypoRunsDP ==
    /\ Len(cost) = 4
    /\ src # tar /\ src # <<>> /\ tar # <<>>
    /\ layout \in Layouts

EditexFunctions == {"editex", "dist_editex", "sim_editex"}
TypoFunctions == {"typo", "dist_typo", "sim_typo"}

\* The outcome of function f on the given arguments.
OutcomeOf(f, s, t, c, loc, m, lay) ==
    CASE f = "editex" -> editex(s, t, c, loc)
      [] f = "dist_editex" -> dist_editex(s, t, c, loc)
      [] f = "sim_editex" -> sim_editex(s, t, c, loc)
      [] f = "typo" -> typo(s, t, m, c, lay)
      [] f = "dist_typo" -> dist_typo(s, t, m, c)
      [] f = "sim_typo" -> sim_typo(s, t, m, c)

\* The outcome of function f on the arguments of the state.
Outcome(f) == OutcomeOf(f, src, tar, cost, local, metric, layout)

\* dist_editex and dist_typo get past their own early return and their
\* reading of cost, and call editex or typo (editex.py:155-158,
\* typo.py:224-227).
DistCallsEditex == src # tar /\ Len(cost) >= 3
DistCallsTypo == src # tar /\ Len(cost) >= 2

\* Normalized with the insert and delete costs of dist_typo on the wrong
\* strings.
Normalized_swapped_sides(f, e) ==
    CASE f \in {"editex", "typo"} -> e
      [] f = "dist_editex" ->
             TrueDiv(e, Max(Len(src) * cost[3], Len(tar) * cost[3]), 2)
      [] f = "sim_editex" ->
             OneMinus(TrueDiv(e, Max(Len(src) * cost[3], Len(tar) * cost[3]),
                              2))
      [] f = "dist_typo" ->
             TrueDiv(e, Max(Len(src) * ins_cost(cost),
                            Len(tar) * del_cost(cost)), 2)
      [] f = "sim_typo" ->
             OneMinus(TrueDiv(e, Max(Len(src) * ins_cost(cost),
                                     Len(tar) * del_cost(cost)), 2))

\* What function f makes of the cell e that editex or typo returned
\* (editex.py:158-159, :186; typo.py:227-228, :258).
Normalized(f, e) ==
    CASE f \in {"editex", "typo"} -> e
      [] f = "dist_editex" ->
             TrueDiv(e, Max(Len(src) * cost[3], Len(tar) * cost[3]), 2)
      [] f = "sim_editex" ->
             OneMinus(TrueDiv(e, Max(Len(src) * cost[3], Len(tar) * cost[3]),
                              2))
      [] f = "dist_typo" ->
             TrueDiv(e, Max(Len(src) * del_cost(cost),
                            Len(tar) * ins_cost(cost)), 2)
      [] f = "sim_typo" ->
             OneMinus(TrueDiv(e, Max(Len(src) * del_cost(cost),
                                     Len(tar) * ins_cost(cost)), 2))

\* A call that leaves its table and loop variables behind when it ends.
Finish_keeps_table(r) ==
    /\ pc' = "done"
    /\ result' = r
    /\ UNCHANGED <<d_mat, loop_i, loop_j>>

\* The call ends with outcome r: a return or a raise.
Finish(r) ==
    /\ pc' = "done"
    /\ result' = r
    /\ d_mat' = <<>>
    /\ loop_i' = 0
    /\ loop_j' = 0

\* editex.py:62-110, entered directly or through dist_editex or sim_editex
\* (editex.py:155-158, :186).
EditexBegin ==
    /\ pc = "call" /\ policy = "editex"
    /\ \E f \in EditexFunctions :
          /\ fn' = f
          /\ IF (f # "editex" /\ ~DistCallsEditex) \/ ~EditexRunsDP
             THEN Finish(Outcome(f))
             ELSE /\ d_mat' = np_zeros(EditexLens, EditexLent)
                  /\ pc' = IF ~local THEN "col0" ELSE "row0"
                  /\ loop_i' = IF ~local THEN 1 ELSE 0
                  /\ loop_j' = IF ~local THEN 0 ELSE 1
                  /\ result' = None
    /\ UNCHANGED <<Args, prev>>

\* editex.py:113-114, one iteration.
EditexCol0 ==
    /\ pc = "col0" /\ policy = "editex"
    /\ d_mat' = [d_mat EXCEPT ![<<loop_i, 0>>] =
                    np_int(2 * d_mat[<<loop_i - 1, 0>>]
                           + d_cost(EditexSrc[loop_i], EditexSrc[loop_i + 1],
                                    cost))]
    /\ IF loop_i < EditexLens
       THEN pc' = "col0" /\ loop_i' = loop_i + 1 /\ loop_j' = loop_j
       ELSE pc' = "row0" /\ loop_i' = loop_i /\ loop_j' = 1
    /\ UNCHANGED <<Args, fn, result, prev>>

\* editex.py:115-116, one iteration.
EditexRow0 ==
    /\ pc = "row0" /\ policy = "editex"
    /\ d_mat' = [d_mat EXCEPT ![<<0, loop_j>>] =
                    np_int(2 * d_mat[<<0, loop_j - 1>>]
                           + d_cost(EditexTar[loop_j], EditexTar[loop_j + 1],
                                    cost))]
    /\ IF loop_j < EditexLent
       THEN pc' = "row0" /\ loop_j' = loop_j + 1 /\ loop_i' = loop_i
       ELSE pc' = "interior" /\ loop_i' = 1 /\ loop_j' = 1
    /\ UNCHANGED <<Args, fn, result, prev>>

\* editex.py:118-122, one iteration of the inner loop.
EditexInterior ==
    /\ pc = "interior" /\ policy = "editex"
    /\ d_mat' = [d_mat EXCEPT ![<<loop_i, loop_j>>] =
                    editex_cell(d_mat, EditexSrc, EditexTar, cost,
                                loop_i, loop_j)]
    /\ IF loop_j < EditexLent
       THEN pc' = "interior" /\ loop_i' = loop_i /\ loop_j' = loop_j + 1
       ELSE IF loop_i < EditexLens
       THEN pc' = "interior" /\ loop_i' = loop_i + 1 /\ loop_j' = 1
       ELSE pc' = "return" /\ loop_i' = loop_i /\ loop_j' = loop_j
    /\ UNCHANGED <<Args, fn, result, prev>>

\* editex.py:124, and the caller's division when there is one.
EditexReturn ==
    /\ pc = "return" /\ policy = "editex"
    /\ Finish(Normalized(fn, Value(d_mat[<<EditexLens, EditexLent>>], 1, TRUE)))
    /\ UNCHANGED <<Args, fn, prev>>

\* typo.py:84-180, entered directly or through dist_typo or sim_typo
\* (typo.py:224-227, :258), which pass no layout on.
TypoBegin ==
    /\ pc = "call" /\ policy = "typo"
    /\ \E f \in TypoFunctions :
          /\ f # "typo" => layout = "QWERTY"
          /\ fn' = f
          /\ IF (f # "typo" /\ ~DistCallsTypo) \/ ~TypoRunsDP
             THEN Finish(Outcome(f))
             ELSE /\ d_mat' = np_zeros(Len(src), Len(tar))
                  /\ pc' = "boundary_i"
                  /\ loop_i' = 0
                  /\ loop_j' = 0
                  /\ result' = None
    /\ UNCHANGED <<Args, prev>>

\* typo.py:181-182, one iteration.
TypoBoundaryCol ==
    /\ pc = "boundary_i" /\ policy = "typo"
    /\ d_mat' = [d_mat EXCEPT ![<<loop_i, 0>>] =
                    HalfUnits(loop_i * del_cost(cost))]
    /\ IF loop_i < Len(src)
       THEN pc' = "boundary_i" /\ loop_i' = loop_i + 1 /\ loop_j' = loop_j
       ELSE pc' = "boundary_j" /\ loop_i' = loop_i /\ loop_j' = 0
    /\ UNCHANGED <<Args, fn, result, prev>>

\* typo.py:183-184, one iteration.
TypoBoundaryRow ==
    /\ pc = "boundary_j" /\ policy = "typo"
    /\ d_mat' = [d_mat EXCEPT ![<<0, loop_j>>] =
                    HalfUnits(loop_j * ins_cost(cost))]
    /\ IF loop_j < Len(tar)
       THEN pc' = "boundary_j" /\ loop_j' = loop_j + 1 /\ loop_i' = loop_i
       ELSE pc' = "interior" /\ loop_i' = 0 /\ loop_j' = 0
    /\ UNCHANGED <<Args, fn, result, prev>>

\* typo.py:186-193, one iteration of the inner loop; _substitution_cost may
\* raise, which ends the call.
TypoInterior ==
    /\ pc = "interior" /\ policy = "typo"
    /\ LET sc == IF src[loop_i + 1] # tar[loop_j + 1]
                 THEN substitution_cost(src[loop_i + 1], tar[loop_j + 1],
                                        metric, cost, kbs(layout))
                 ELSE Value(0, TableUnit, FALSE)
       IN  IF IsError(sc) THEN Finish(sc)
           ELSE /\ d_mat' =
                     [d_mat EXCEPT ![<<loop_i + 1, loop_j + 1>>] =
                         Min3(d_mat[<<loop_i + 1, loop_j>>]
                                + HalfUnits(ins_cost(cost)),
                              d_mat[<<loop_i, loop_j + 1>>]
                                + HalfUnits(del_cost(cost)),
                              d_mat[<<loop_i, loop_j>>] + sc.num)]
                /\ result' = result
                /\ IF loop_j + 1 < Len(tar)
                   THEN /\ pc' = "interior"
                        /\ loop_i' = loop_i /\ loop_j' = loop_j + 1
                   ELSE IF loop_i + 1 < Len(src)
                   THEN /\ pc' = "interior"
                        /\ loop_i' = loop_i + 1 /\ loop_j' = 0
                   ELSE /\ pc' = "return"
                        /\ loop_i' = loop_i /\ loop_j' = loop_j
    /\ UNCHANGED <<Args, fn, prev>>

\* typo.py:195, and the caller's division when there is one.
TypoReturn ==
    /\ pc = "return" /\ policy = "typo"
    /\ Finish(Normalized(fn, Value(d_mat[<<Len(src), Len(tar)>>], TableUnit,
                                   TRUE)))
    /\ UNCHANGED <<Args, fn, prev>>

\* The calls whose fill is followed: strings over a letter and H; an
\* unshifted key, a shifted one and the euro sign.
FillEditexPairs ==
    (Strings({"a", "h"}) \X Strings({"a", "h"}))
        \cup { <<Str_cat, Str_hat>>,
               <<<<"U+00DF">>, <<"s">>>>,
               <<<<"U+00E9">>, <<"a">>>> }

FillEditexCosts == {EditexDefaultCost, <<0, 1, 3>>, <<2, 2, 2>>, <<0, 2, 0>>}

FillTypoPairs ==
    (Strings({"a", "P"}) \X Strings({"a", "P"}))
        \cup { <<Str_cat, Str_hat>>,
               <<<<"a", "U+20AC">>, <<"a", "a">>>>,
               <<<<"U+20AC", "a">>, <<"U+20AC", "P">>>> }

FillTypoCosts == {TypoDefaultCost, <<2, 4, 1, 1>>, <<0, 0, 1, 1>>}

FillTypoConfigs ==
    {<<"euclidean", "QWERTY">>, <<"log-manhattan", "AZERTY">>,
     <<"bogus", "QWERTY">>, <<"manhattan", "bogus">>}

FillInit ==
    /\ Idle
    /\ prev = NoCall
    /\ char1 = "" /\ char2 = ""
    /\ \/ EditexArgs(FillEditexPairs, FillEditexCosts)
       \/ TypoArgs(FillTypoPairs, FillTypoCosts, FillTypoConfigs)

FillNext ==
    \/ EditexBegin
    \/ EditexCol0
    \/ EditexRow0
    \/ EditexInterior
    \/ EditexReturn
    \/ TypoBegin
    \/ TypoBoundaryCol
    \/ TypoBoundaryRow
    \/ TypoInterior
    \/ TypoReturn

FillSpec == FillInit /\ [][FillNext]_vars

----------------------------------------------------------------------------
(* Calls one after another.  prev is the call that completed last; the     *)
(* table and the loop variables are locals of the call that is running.    *)

SeqEditexPairs ==
    { <<<<"a">>, <<"h">>>>, <<<<"a", "h">>, <<"h">>>>, <<<<"a">>, <<"a">>>> }
SeqEditexCosts == {EditexDefaultCost, <<0, 2>>}

SeqTypoPairs ==
    { <<<<"a">>, <<"P">>>>, <<<<"U+20AC">>, <<"a">>>>,
      <<<<"a", "P">>, <<"a">>>> }
SeqTypoCosts == {TypoDefaultCost}
SeqTypoConfigs ==
    {<<"euclidean", "QWERTY">>, <<"bogus", "QWERTY">>,
     <<"manhattan", "bogus">>}

\* A call of f with the given arguments, and its outcome r.
CallRecord(f, s, t, c, loc, m, lay, r) ==
    [fn |-> f, src |-> s, tar |-> t, cost |-> c, local |-> loc,
     metric |-> m, layout |-> lay, result |-> r]

\* The call c had the function and the arguments of the state.
SameCall(c) ==
    /\ c.fn = fn /\ c.src = src /\ c.tar = tar /\ c.cost = cost
    /\ c.local = local /\ c.metric = metric /\ c.layout = layout

SeqInit ==
    /\ Idle
    /\ prev = NoCall
    /\ char1 = "" /\ char2 = ""
    /\ \/ EditexArgs(SeqEditexPairs, SeqEditexCosts)
       \/ TypoArgs(SeqTypoPairs, SeqTypoCosts, SeqTypoConfigs)

\* The caller, back from a call, makes the next one.
NextCall ==
    /\ pc = "done"
    /\ prev' = CallRecord(fn, src, tar, cost, local, metric, layout, result)
    /\ pc' = "call" /\ fn' = "" /\ result' = None
    /\ d_mat' = <<>> /\ loop_i' = 0 /\ loop_j' = 0
    /\ \/ /\ policy' = "editex"
          /\ \E p \in SeqEditexPairs : src' = p[1] /\ tar' = p[2]
          /\ cost' \in SeqEditexCosts
          /\ local' \in BOOLEAN
          /\ metric' = "euclidean" /\ layout' = "QWERTY"
       \/ /\ policy' = "typo"
          /\ \E p \in SeqTypoPairs : src' = p[1] /\ tar' = p[2]
          /\ cost' \in SeqTypoCosts
          /\ local' = FALSE
          /\ \E mc \in SeqTypoConfigs : metric' = mc[1] /\ layout' = mc[2]
    /\ UNCHANGED <<char1, char2>>

SeqNext ==
    \/ FillNext
    \/ NextCall

SeqSpec == SeqInit /\ [][SeqNext]_vars

----------------------------------------------------------------------------
(* Properties. *)


C2_EditexBounds ==
    (/\ pc = "done" /\ fn \in {"dist_editex", "sim_editex"}
     /\ EditexCostOk(cost)
     /\ IsFinite(result))
        => (0 <= result.num /\ result.num <= result.den)

\* C3: Bounds (Typo).  For every pair of strings whose characters all belong
\* to the layout, every supported metric and every cost tuple of non-negative
\* numbers, every number d that dist_typo returns satisfies 0 <= d <= 1.
C3_TypoBounds ==
    (/\ pc = "done" /\ fn = "dist_typo"
     /\ TypoCostOk(cost)
     /\ metric \in Metrics
     /\ \A ch \in SetOf(src) \cup SetOf(tar) :
            kb_array_for_char(ch, kbs("QWERTY")).found
     /\ IsFinite(result))
        => (0 <= result.num /\ result.num <= result.den)

\* C4: Complement.  For every valid input pair and configuration,
\* sim_editex(src, tar, cost, local) + dist_editex(src, tar, cost, local) = 1
\* and sim_typo(src, tar, metric, cost) + dist_typo(src, tar, metric, cost)
\* = 1, the distance being the one of the same arguments.
C4_Complement ==
    /\ (Done("sim_editex") /\ IsFinite(dist_editex(src, tar, cost, local))) =>
           LET d == dist_editex(src, tar, cost, local)
           IN  /\ IsFinite(result)
               /\ result.num * d.den + d.num * result.den
                      = result.den * d.den
    /\ (Done("sim_typo") /\ IsFinite(dist_typo(src, tar, metric, cost))) =>
           LET d == dist_typo(src, tar, metric, cost)
           IN  /\ IsFinite(result)
               /\ result.num * d.den + d.num * result.den
                      = result.den * d.den

\* Witness of C4: sim_editex has returned for a local alignment whose
\* distance differs from the global one.
C4_Witness ==
    /\ Done("sim_editex") /\ local
    /\ IsFinite(result)
    /\ IsFinite(dist_editex(src, tar, cost, FALSE))
    /\ ~ValEq(dist_editex(src, tar, cost, TRUE),
              dist_editex(src, tar, cost, FALSE))

\* C5: Local variant monotonicity.  For every src, tar and cost tuple of
\* non-negative numbers, editex(src, tar, cost, local=True) <=
\* editex(src, tar, cost, local=False).
C5_LocalMonotone ==
    (Done("editex") /\ local /\ EditexCostOk(cost)) =>
        ValLe(result, editex(src, tar, cost, FALSE))

\* Witness of C5: the local variant has returned strictly less than the
\* global one.
C5_Witness ==
    /\ Done("editex") /\ local
    /\ ValLe(result, editex(src, tar, cost, FALSE))
    /\ ~ValEq(result, editex(src, tar, cost, FALSE))

\* C6: Editex literal scenarios with the default cost (0, 1, 2) and
\* local = False: editex('cat', 'hat') = 2, editex('Niall', 'Neil') = 2,
\* editex('ATCG', 'TAGC') = 6, editex('aluminum', 'Catalan') = 12 and
\* dist_editex('cat', 'hat') = 2/6.
C6_EditexLiterals ==
    (pc = "done" /\ cost = EditexDefaultCost /\ ~local) =>
        /\ (fn = "editex" /\ src = Str_cat /\ tar = Str_hat)
               => EqFrac(result, 2, 1)
        /\ (fn = "editex" /\ src = Str_Niall /\ tar = Str_Neil)
               => EqFrac(result, 2, 1)
        /\ (fn = "editex" /\ src = Str_ATCG /\ tar = Str_TAGC)
               => EqFrac(result, 6, 1)
        /\ (fn = "editex" /\ src = Str_aluminum /\ tar = Str_Catalan)
               => EqFrac(result, 12, 1)
        /\ (fn = "dist_editex" /\ src = Str_cat /\ tar = Str_hat)
               => EqFrac(result, 2, 6)

\* Witness of C6: editex('aluminum', 'Catalan') has returned 12.
C6_Witness ==
    /\ Done("editex") /\ cost = EditexDefaultCost /\ ~local
    /\ src = Str_aluminum /\ tar = Str_Catalan
    /\ EqFrac(result, 12, 1)

\* C7: Typo literal scenarios on QWERTY with the default cost
\* (1, 1, 0.5, 0.5): typo('cat', 'hat', metric='manhattan') = 2.0,
\* typo('ATCG', 'TAGC') = 2.5 for the euclidean and the manhattan metric,
\* and dist_typo('ATCG', 'TAGC') = 0.625.
C7_TypoLiterals ==
    (pc = "done" /\ cost = TypoDefaultCost /\ layout = "QWERTY") =>
        /\ (fn = "typo" /\ src = Str_cat /\ tar = Str_hat
               /\ metric = "manhattan")
               => EqFrac(result, 2, 1)
        /\ (fn = "typo" /\ src = Str_ATCG /\ tar = Str_TAGC
               /\ metric \in {"euclidean", "manhattan"})
               => EqFrac(result, 5, 2)
        /\ (fn = "dist_typo" /\ src = Str_ATCG /\ tar = Str_TAGC
               /\ metric = "euclidean")
               => EqFrac(result, 625, 1000)

\* Witness of C7: dist_typo('ATCG', 'TAGC') has returned 0.625 under the
\* default metric.
C7_Witness ==
    /\ Done("dist_typo") /\ cost = TypoDefaultCost /\ metric = "euclidean"
    /\ src = Str_ATCG /\ tar = Str_TAGC
    /\ EqFrac(result, 625, 1000)

\* C8: Empty-input policy.  When exactly one input is empty, editex returns
\* the length of the other, normalized, string times the mismatch cost
\* (editex('', 'abc', cost=(0, 1, 2)) = 6), and typo returns
\* len(tar) * insert_cost when src is empty and len(src) * delete_cost when
\* tar is empty, for every cost tuple and whatever local, metric and layout.
C8_EmptyInput ==
    /\ (Done("editex") /\ Len(cost) = 3 /\ src = <<>> /\ tar # <<>>) =>
           EqFrac(result, Len(editex_normalize(tar)) * cost[3], 2)
    /\ (Done("editex") /\ Len(cost) = 3 /\ tar = <<>> /\ src # <<>>) =>
           EqFrac(result, Len(editex_normalize(src)) * cost[3], 2)
    /\ (Done("typo") /\ Len(cost) = 4 /\ src = <<>> /\ tar # <<>>) =>
           EqFrac(result, Len(tar) * cost[1], 2)
    /\ (Done("typo") /\ Len(cost) = 4 /\ tar = <<>> /\ src # <<>>) =>
           EqFrac(result, Len(src) * cost[2], 2)

\* Witness of C8: typo has returned len(src) * delete_cost for an empty tar,
\* with delete_cost different from insert_cost and an unknown layout.
C8_Witness ==
    /\ Done("typo") /\ tar = <<>> /\ Len(src) = 2
    /\ Len(cost) = 4 /\ cost[1] # cost[2]
    /\ layout \notin Layouts
    /\ EqFrac(result, 2 * cost[2], 2)

\* The characters of src and tar that are in neither shift-state table.
Unsupported(lay) ==
    {ch \in SetOf(src) \cup SetOf(tar) : ~kb_array_for_char(ch, kbs(lay)).found}

\* C9: Unsupported character.  Every call of typo in which some character of
\* src or of tar is absent from both shift-state tables of the selected
\* layout fails with an unsupported-character error naming the character,
\* and returns no distance.
C9_UnsupportedCharacter ==
    (/\ Done("typo")
     /\ TypoCostOk(cost)
     /\ layout \in Layouts /\ metric \in Metrics
     /\ Unsupported(layout) # {}) =>
        /\ IsError(result)
        /\ result.exc = "ValueError"
        /\ result.arg \in Unsupported(layout)

\* C10: Configuration errors.  Every call of typo with a metric outside
\* {euclidean, manhattan, log-euclidean, log-manhattan} or a layout outside
\* {QWERTY, Dvorak, AZERTY, QWERTZ} fails with a configuration error, for
\* all src and tar, and returns no result.
C10_ConfigurationError ==
    (/\ Done("typo")
     /\ TypoCostOk(cost)
     /\ (metric \notin Metrics \/ layout \notin Layouts)) =>
        /\ IsError(result)
        /\ result.exc = "KeyError"

\* C11: Cost-tuple validation.  Every call of editex, dist_editex, typo or
\* dist_typo whose cost tuple has the wrong arity or holds a negative value
\* fails with a configuration error before any table is computed, for all
\* src and tar, equal and empty ones included.
C11_CostValidation ==
    (/\ pc = "done"
     /\ fn \in {"editex", "dist_editex", "typo", "dist_typo"}
     /\ ~(IF policy = "editex" THEN EditexCostOk(cost) ELSE TypoCostOk(cost)))
        => (IsError(result) /\ result.exc \in {"ValueError", "IndexError"})

\* C12: Totality.  For every cost tuple of non-negative numbers of the right
\* arity (zero components included), every supported metric and layout and
\* every pair of strings over supported characters, each of the six
\* functions returns a defined number: nothing is raised, and the normalizer
\* is not zero where it divides.
C12_Totality ==
    (/\ pc = "done"
     /\ IF policy = "editex" THEN EditexCostOk(cost)
        ELSE /\ TypoCostOk(cost)
             /\ metric \in Metrics /\ layout \in Layouts
             /\ Unsupported(layout) = {})
        => IsFinite(result)

\* s with every symbol equal to its predecessor removed.
RECURSIVE CollapseRuns(_)
CollapseRuns(s) ==
    IF Len(s) <= 1 THEN s
    ELSE IF s[1] = s[2] THEN CollapseRuns(Tail(s))
    ELSE <<s[1]>> \o CollapseRuns(Tail(s))

\* C13, as claimed: Zero distance implies equality.  With the default
\* costs, if editex(src, tar) = 0 (or dist_editex(src, tar) = 0) then src
\* and tar are identical after normalization, and if typo(src, tar) = 0 then
\* src = tar.
C13_ZeroImpliesEqual ==
    (pc = "done" /\ IsZero(result)) =>
        /\ (fn \in {"editex", "dist_editex"} /\ cost = EditexDefaultCost
               /\ ~local)
               => editex_normalize(src) = editex_normalize(tar)
        /\ (fn = "typo" /\ cost = TypoDefaultCost) => src = tar

\* C13, amended: with the default costs and local = False, if
\* editex(src, tar) = 0 (or dist_editex(src, tar) = 0) then the normalized
\* strings, each behind its leading blank, are identical once every run of
\* a repeated symbol is collapsed to one symbol; if typo(src, tar) = 0 then
\* src = tar.
C13_ZeroImpliesEqualUpToRuns ==
    (pc = "done" /\ IsZero(result)) =>
        /\ (fn \in {"editex", "dist_editex"} /\ cost = EditexDefaultCost
               /\ ~local)
               => CollapseRuns(Prefixed(editex_normalize(src)))
                      = CollapseRuns(Prefixed(editex_normalize(tar)))
        /\ (fn = "typo" /\ cost = TypoDefaultCost) => src = tar

\* Witness of C13: editex has returned 0, from the table, for two strings
\* that differ after normalization.
C13_Witness ==
    /\ Done("editex") /\ cost = EditexDefaultCost /\ ~local
    /\ IsZero(result) /\ result.np
    /\ editex_normalize(src) # editex_normalize(tar)

\* t is a suffix of s.
IsSuffix(t, s) ==
    Len(t) <= Len(s) /\ SubSeq(s, Len(s) - Len(t) + 1, Len(s)) = t

\* C15, as claimed: Free source prefix under local.  With local = True and
\* match cost 0, for every src and tar such that normalized tar is a suffix
\* of normalized src (tar possibly empty), editex(src, tar, local=True) = 0.
C15_FreeSourcePrefix ==
    (/\ Done("editex") /\ local
     /\ EditexCostOk(cost) /\ match_cost(cost) = 0
     /\ IsSuffix(editex_normalize(tar), editex_normalize(src)))
        => IsZero(result)

\* C15, amended: with local = True, a cost tuple of non-negative numbers
\* and match cost 0, for every src and tar such that normalized tar is not
\* empty and is a suffix of normalized src,
\* editex(src, tar, local=True) = 0; when normalized tar is empty and
\* normalized src is not, editex returns len(src) * mismatch_cost.
C15_FreeSourcePrefixNonEmpty ==
    (/\ Done("editex") /\ local
     /\ EditexCostOk(cost) /\ match_cost(cost) = 0
     /\ IsSuffix(editex_normalize(tar), editex_normalize(src)))
        => IF editex_normalize(tar) # <<>> THEN IsZero(result)
           ELSE EqFrac(result,
                       Len(editex_normalize(src)) * mismatch_cost(cost), 2)

\* Witness of C15: the local variant has returned 0 for a target that is a
\* proper suffix of the source, where the global variant does not.
C15_Witness ==
    /\ Done("editex") /\ local
    /\ EditexCostOk(cost) /\ match_cost(cost) = 0
    /\ editex_normalize(tar) # <<>>
    /\ Len(editex_normalize(tar)) < Len(editex_normalize(src))
    /\ IsSuffix(editex_normalize(tar), editex_normalize(src))
    /\ IsZero(result)
    /\ ~IsZero(editex(src, tar, cost, FALSE))

\* Both characters are on the selected layout, and the metric is one of the
\* four.
OnLayout ==
    /\ metric \in Metrics
    /\ kb_array_for_char(char1, kbs(layout)).found
    /\ kb_array_for_char(char2, kbs(layout)).found

\* C14: Symmetry of pair_cost.  For all symbols a, b and every cost tuple,
\* r_cost(a, b) = r_cost(b, a); for all characters a, b of the selected
\* layout, every metric and every cost tuple,
\* _substitution_cost(a, b) = _substitution_cost(b, a).
C14_PairCostSymmetry ==
    /\ Done("r_cost") => result = HalfValue(r_cost(char2, char1, cost))
    /\ (Done("_substitution_cost") /\ OnLayout) =>
           result = substitution_cost(char2, char1, metric, cost, kbs(layout))

\* Witness of C14: _substitution_cost has returned a cost with the shift
\* term in it, for an unshifted first and a shifted second character.
C14_Witness ==
    /\ Done("_substitution_cost") /\ OnLayout
    /\ kb_array_for_char(char1, kbs(layout)).kb = kbs(layout)[1]
    /\ kb_array_for_char(char2, kbs(layout)).kb = kbs(layout)[2]
    /\ sub_cost(cost) > 0 /\ shift_cost(cost) > 0
    /\ IsFinite(result) /\ result.num > 0
    /\ result = substitution_cost(char2, char1, metric, cost, kbs(layout))

\* The letter groups both a and b are in.
SharedGroups(a, b) ==
    {g \in 1..Len(letter_groups) : {a, b} \subseteq letter_groups[g]}

\* C17, as claimed: Editex pair_cost.  For all symbols a, b, r_cost(a, b)
\* is 0 if a = b; otherwise the group cost when a and b are both in the
\* 24-letter alphabet and share at least one of the ten letter groups,
\* however many; otherwise the mismatch cost.
C17_PairCostZeroOnEqual ==
    Done("r_cost") =>
        EqFrac(result,
               IF char1 = char2 THEN 0
               ELSE IF {char1, char2} \subseteq all_letters
                       /\ SharedGroups(char1, char2) # {}
                    THEN cost[2]
                    ELSE cost[3],
               2)

\* C17, amended: for all symbols a, b, r_cost(a, b) is the match cost (0
\* under the default costs) if a = b; otherwise the group cost when a and b
\* are both in the 24-letter alphabet and share at least one of the ten
\* letter groups, however many; otherwise the mismatch cost.
C17_PairCost ==
    Done("r_cost") =>
        EqFrac(result,
               IF char1 = char2 THEN cost[1]
               ELSE IF {char1, char2} \subseteq all_letters
                       /\ SharedGroups(char1, char2) # {}
                    THEN cost[2]
                    ELSE cost[3],
               2)

\* Witness of C17: r_cost has returned the group cost, once, for two
\* letters that share two groups.
C17_Witness ==
    /\ Done("r_cost")
    /\ char1 # char2
    /\ Cardinality(SharedGroups(char1, char2)) = 2
    /\ cost[2] > 0 /\ cost[2] # cost[3]
    /\ EqFrac(result, cost[2], 2)

\* C18: Editex boundary_cost.  For all symbols p and c, d_cost(p, c) is the
\* group cost when p is H or W and p # c, whatever the groups say, and is
\* r_cost(p, c) in every other case, p = c = H and p = c = W included.
C18_BoundaryCost ==
    Done("d_cost") =>
        IF char1 \in {"H", "W"} /\ char1 # char2
        THEN EqFrac(result, cost[2], 2)
        ELSE result = HalfValue(r_cost(char1, char2, cost))

\* Witness of C18: d_cost has returned the group cost for an H before a
\* letter of no group of H, where r_cost gives the mismatch cost.
C18_Witness ==
    /\ Done("d_cost")
    /\ char1 = "H" /\ char2 = "A"
    /\ cost[2] # cost[3]
    /\ r_cost(char1, char2, cost) = cost[3]
    /\ EqFrac(result, cost[2], 2)

\* Row 0 of the Editex table has been written up to column jj.
Row0Written(jj) ==
    pc \in {"interior", "return"} \/ (pc = "row0" /\ jj < loop_j)

\* Column 0 of the Editex table has been written up to row ii.
Col0Written(ii) ==
    pc \in {"row0", "interior", "return"} \/ (pc = "col0" /\ ii < loop_i)

\* C19: Editex boundary initialization.  In every run of the table fill,
\* row 0 holds D[0][j] = D[0][j-1] + d_cost(tar[j-1], tar[j]) for all j in
\* 1..n whatever local is; column 0 holds
\* D[i][0] = D[i-1][0] + d_cost(src[i-1], src[i]) for all i in 1..m when
\* local is false, and D[i][0] = 0 for all i when local is true.
C19_BoundaryInit ==
    (policy = "editex" /\ d_mat # <<>>) =>
        /\ \A jj \in 1..EditexLent :
               Row0Written(jj) =>
                   2 * d_mat[<<0, jj>>]
                       = 2 * d_mat[<<0, jj - 1>>]
                           + d_cost(EditexTar[jj], EditexTar[jj + 1], cost)
        /\ ~local =>
               \A ii \in 1..EditexLens :
                   Col0Written(ii) =>
                       2 * d_mat[<<ii, 0>>]
                           = 2 * d_mat[<<ii - 1, 0>>]
                               + d_cost(EditexSrc[ii], EditexSrc[ii + 1], cost)
        /\ local => \A ii \in 0..EditexLens : d_mat[<<ii, 0>>] = 0

\* While a table is being filled under a cost tuple of non-negative
\* numbers, cell (0, 0) is 0 and no cell is negative.
C20_Cells ==
    (d_mat # <<>> /\ NonNegative(cost)) =>
        /\ d_mat[<<0, 0>>] = 0
        /\ \A ij \in DOMAIN d_mat : d_mat[ij] >= 0

\* The return statement after the loops returns the last cell of the table.
C20_ReturnsLastCell ==
    (pc = "return" /\ pc' = "done" /\ fn \in {"editex", "typo"}) =>
        result' = IF policy = "editex"
                  THEN Value(d_mat[<<EditexLens, EditexLent>>], 1, TRUE)
                  ELSE Value(d_mat[<<Len(src), Len(tar)>>], TableUnit, TRUE)

\* C20: DP table invariant.  In every state of the table fill of editex and
\* of typo, given a cost tuple of non-negative numbers, cell (0, 0) is 0 and
\* every cell already written is non-negative; when the table is filled, the
\* value returned is the content of cell (len(src), len(tar)).
C20_TableInvariant == [](C20_Cells) /\ [][C20_ReturnsLastCell]_vars

\* Witness of C20: typo is at its return statement with a table whose last
\* cell is positive, filled from strings of two characters.
C20_Witness ==
    /\ pc = "return" /\ policy = "typo"
    /\ NonNegative(cost)
    /\ Len(src) = 2 /\ Len(tar) = 2
    /\ d_mat[<<0, 0>>] = 0
    /\ d_mat[<<2, 2>>] > 0

----------------------------------------------------------------------------
----------------------------------------------------------------------------
\* The substitution term of typo for src[i] and tar[j] (1-based), in units
\* of 1/TableUnit, once the fill has got through without a raise.
TypoPairTerm(i, j) ==
    IF src[i] # tar[j]
    THEN substitution_cost(src[i], tar[j], metric, cost, kbs(layout)).num
    ELSE 0

\* C21: interior recurrence.  When the table fill of editex or typo has run
\* to its return statement, every interior cell (i, j), 1 <= i <= m,
\* 1 <= j <= n, holds exactly
\* min(D[i-1][j] + boundary_cost(src, i), D[i][j-1] + boundary_cost(tar, j),
\*     D[i-1][j-1] + pair_cost(src[i], tar[j])).
C21_InteriorRecurrence ==
    /\ (pc = "return" /\ policy = "editex") =>
           \A ii \in 1..EditexLens, jj \in 1..EditexLent :
               2 * d_mat[<<ii, jj>>] =
                   Min3(2 * d_mat[<<ii - 1, jj>>]
                          + d_cost(EditexSrc[ii], EditexSrc[ii + 1], cost),
                        2 * d_mat[<<ii, jj - 1>>]
                          + d_cost(EditexTar[jj], EditexTar[jj + 1], cost),
                        2 * d_mat[<<ii - 1, jj - 1>>]
                          + r_cost(EditexSrc[ii + 1], EditexTar[jj + 1], cost))
    /\ (pc = "return" /\ policy = "typo") =>
           \A ii \in 1..Len(src), jj \in 1..Len(tar) :
               d_mat[<<ii, jj>>] =
                   Min3(d_mat[<<ii, jj - 1>>] + HalfUnits(ins_cost(cost)),
                        d_mat[<<ii - 1, jj>>] + HalfUnits(del_cost(cost)),
                        d_mat[<<ii - 1, jj - 1>>] + TypoPairTerm(ii, jj))

----------------------------------------------------------------------------
\* The places <<shift state, row, column>> at which the tables of a layout
\* hold ch: shift state 1 or 2, row and column zero-based, every slot of a
\* row counted.
Occurrences(ch, keyboard) ==
    { p \in UNION { UNION { { <<t, r - 1, k - 1>> :
                                 k \in 1..Len(keyboard[t][r]) } :
                             r \in 1..Len(keyboard[t]) } :
                     t \in 1..2 } :
        keyboard[p[1]][p[2] + 1][p[3] + 1] = ch }

\* The keyboard metric m between two places, in units of 1/MetricUnit.
KeyboardMetric(m, pa, pb) ==
    LET rows == Abs(pa[2] - pb[2])
        cols == Abs(pa[3] - pb[3])
    IN  CASE m = "manhattan" -> MetricUnit * (rows + cols)
          [] m = "euclidean" ->
                 Isqrt((rows * rows + cols * cols) * MetricUnit * MetricUnit)
          [] m = "log-manhattan" -> LnTable[(rows + cols) * (rows + cols) + 1]
          [] m = "log-euclidean" -> LnTable[rows * rows + cols * cols + 1]

\* C22: Typo pair_cost formula.  For all characters a, b of the selected
\* layout, _substitution_cost(a, b) is 0 when a = b and otherwise
\* substitute_cost * (keyboard_metric(a, b) + shift_cost * [a and b lie in
\* different shift-state tables]), the metric taken between the places of a
\* and of b in the tables, with every slot of a row, placeholders included,
\* counted as a column (manhattan: |row_a - row_b| + |col_a - col_b|); the
\* shift term is there whenever the shift states differ, the same key in
\* its two shift states included.
C22_TypoPairCost ==
    (Done("_substitution_cost") /\ OnLayout) =>
        /\ char1 = char2 => IsZero(result)
        /\ char1 # char2 =>
               \A pa \in Occurrences(char1, kbs(layout)),
                  pb \in Occurrences(char2, kbs(layout)) :
                  result = Value(sub_cost(cost)
                                   * (2 * KeyboardMetric(metric, pa, pb)
                                      + MetricUnit * shift_cost(cost)
                                        * (IF pa[1] # pb[1] THEN 1 ELSE 0)),
                                 TableUnit, TRUE)

----------------------------------------------------------------------------
\* C23 as claimed: normalizer formula.  For src # tar, dist_editex(src, tar)
\* is editex(src, tar) / (mismatch_cost * max(|src|, |tar|)), and
\* dist_typo(src, tar) is typo(src, tar) / max(|src| * u, |tar| * u) with
\* u = max(insert_cost, delete_cost), for every cost tuple.
C23_Normalizer ==
    /\ (Done("dist_editex") /\ src # tar
          /\ IsValue(editex(src, tar, cost, local))) =>
           result = TrueDiv(editex(src, tar, cost, local),
                            cost[3] * Max(Len(src), Len(tar)), 2)
    /\ (Done("dist_typo") /\ src # tar
          /\ IsValue(typo(src, tar, metric, cost, "QWERTY"))) =>
           result = TrueDiv(typo(src, tar, metric, cost, "QWERTY"),
                            Max(Len(src) * Max(ins_cost(cost), del_cost(cost)),
                                Len(tar) * Max(ins_cost(cost), del_cost(cost))),
                            2)

\* C23, amended: for src # tar, when editex(src, tar) returns e,
\* dist_editex(src, tar) is the outcome of
\* e / max(|src| * mismatch_cost, |tar| * mismatch_cost), and when
\* typo(src, tar) returns t, dist_typo(src, tar) is the outcome of
\* t / max(|src| * delete_cost, |tar| * insert_cost): the source is charged
\* at the delete cost and the target at the insert cost, and the lengths
\* are those of the strings as given.  A zero divisor gives the outcome of
\* the division by zero.
C23_NormalizerBySide ==
    /\ (Done("dist_editex") /\ src # tar
          /\ IsValue(editex(src, tar, cost, local))) =>
           result = TrueDiv(editex(src, tar, cost, local),
                            Max(Len(src) * cost[3], Len(tar) * cost[3]), 2)
    /\ (Done("dist_typo") /\ src # tar
          /\ IsValue(typo(src, tar, metric, cost, "QWERTY"))) =>
           result = TrueDiv(typo(src, tar, metric, cost, "QWERTY"),
                            Max(Len(src) * del_cost(cost),
                                Len(tar) * ins_cost(cost)), 2)

\* Witness of C23: dist_typo has run the table fill for a target longer
\* than the source under insert cost 1 and delete cost 2, and returned the
\* value of typo over 2 * 1.
C23_Witness ==
    /\ Done("dist_typo")
    /\ ins_cost(cost) = 2 /\ del_cost(cost) = 4
    /\ Len(src) = 1 /\ Len(tar) = 2
    /\ IsFinite(result) /\ ~IsZero(result)
    /\ result = TrueDiv(typo(src, tar, metric, cost, "QWERTY"), 2, 1)

----------------------------------------------------------------------------
\* The entries of the two tables of a layout, the empty placeholder apart.
Entries(keyboard) == (lowercase(keyboard) \cup uppercase(keyboard)) \ {""}

\* The letters of the letter keys, <<lower case, upper case>>: a to z, and
\* the umlauts of QWERTZ (U+00E4/C4, U+00F6/D6, U+00FC/DC).
LetterKeys ==
    { <<LowerCase[k], UpperCase[k]>> : k \in 1..Len(LowerCase) }
        \cup { <<"U+00E4", "U+00C4">>, <<"U+00F6", "U+00D6">>,
               <<"U+00FC", "U+00DC">> }

\* C24: layout tables are unambiguous.  In each of the four layouts every
\* entry other than the placeholder occurs in exactly one of the two
\* shift-state tables and at exactly one (row, column) there, and every
\* letter key of the layout is resolvable by _kb_array_for_char in both
\* cases.
C24_LayoutTables ==
    (policy = "typo" /\ layout \in Layouts) =>
        /\ \A ch \in Entries(kbs(layout)) :
               Cardinality(Occurrences(ch, kbs(layout))) = 1
        /\ \A lk \in LetterKeys :
               kb_array_for_char(lk[1], kbs(layout)).found
                   <=> kb_array_for_char(lk[2], kbs(layout)).found

----------------------------------------------------------------------------
\* C25: Editex argument symmetry.  With local = False, for every src, tar
\* and cost tuple, editex(src, tar) has the outcome of editex(tar, src) and
\* dist_editex(src, tar) that of dist_editex(tar, src).
C25_EditexSymmetry ==
    /\ (Done("editex") /\ ~local) => result = editex(tar, src, cost, local)
    /\ (Done("dist_editex") /\ ~local) =>
           result = dist_editex(tar, src, cost, local)

\* Witness of C25: editex has filled a table that is not square, with an H
\* in one of the strings, and returned a positive value, that of the call
\* with the arguments exchanged.
C25_Witness ==
    /\ Done("editex") /\ ~local
    /\ Len(editex_normalize(src)) > Len(editex_normalize(tar))
    /\ editex_normalize(tar) # <<>>
    /\ \E k \in 1..Len(src) : src[k] = "h"
    /\ IsFinite(result) /\ ~IsZero(result)
    /\ result = editex(tar, src, cost, local)

\* Every character of s is in one of the two tables of the layout.
OverLayout(s, keyboard) ==
    \A k \in 1..Len(s) : kb_array_for_char(s[k], keyboard).found

\* C26: Typo argument symmetry.  For every src, tar over the layout, every
\* metric and every cost (ins, del, sub, shift),
\* typo(src, tar, cost=(ins, del, sub, shift)) is
\* typo(tar, src, cost=(del, ins, sub, shift)); with insert_cost equal to
\* delete_cost, typo(src, tar) is typo(tar, src).
C26_TypoSymmetry ==
    (/\ Done("typo")
     /\ Len(cost) = 4 /\ metric \in Metrics /\ layout \in Layouts
     /\ OverLayout(src, kbs(layout)) /\ OverLayout(tar, kbs(layout))) =>
        /\ result = typo(tar, src, metric,
                         <<del_cost(cost), ins_cost(cost), sub_cost(cost),
                           shift_cost(cost)>>, layout)
        /\ ins_cost(cost) = del_cost(cost) =>
               result = typo(tar, src, metric, cost, layout)

\* Witness of C26: typo has filled a table that is not square under insert
\* and delete costs that differ, and what it returned is not what the call
\* with the strings exchanged and the cost tuple kept returns.
C26_Witness ==
    /\ Done("typo")
    /\ Len(cost) = 4 /\ metric \in Metrics /\ layout \in Layouts
    /\ OverLayout(src, kbs(layout)) /\ OverLayout(tar, kbs(layout))
    /\ src # <<>> /\ tar # <<>> /\ Len(src) # Len(tar)
    /\ ins_cost(cost) # del_cost(cost)
    /\ IsFinite(result)
    /\ result # typo(tar, src, metric, cost, layout)
    /\ result = typo(tar, src, metric,
                     <<del_cost(cost), ins_cost(cost), sub_cost(cost),
                       shift_cost(cost)>>, layout)

----------------------------------------------------------------------------
\* What lines 106-124 of editex return for normalized strings s and t when
\* they are run on inputs the early returns take away: the loops over an
\* empty range do nothing.
editex_by_table(s, t, c, loc) ==
    LET sp == Prefixed(s)
        tp == Prefixed(t)
        d0 == np_zeros(Len(s), Len(t))
        d1 == IF ~loc THEN editex_col0(d0, sp, c, 1) ELSE d0
        d2 == editex_row0(d1, tp, c, 1)
        d3 == IF s = <<>> \/ t = <<>> THEN d2
              ELSE editex_interior(d2, sp, tp, c, 0)
    IN  d3[<<Len(s), Len(t)>>]

\* editex returns early: its normalized strings are equal, or one is empty.
EditexFastPath ==
    \/ editex_normalize(src) = editex_normalize(tar)
    \/ editex_normalize(src) = <<>>
    \/ editex_normalize(tar) = <<>>

\* Each character of s, after the blank put in front of it and after its
\* predecessor, costs the mismatch cost on the boundary.
AllMismatchSteps(s, c) ==
    \A k \in 1..Len(s) :
        d_cost(Prefixed(s)[k], Prefixed(s)[k + 1], c) = mismatch_cost(c)

\* C27 as claimed: fast paths agree with the table.  For every src, tar and
\* the default cost, what editex returns through the equal-input and the
\* empty-input fast paths is what the table computation produces for the
\* same inputs (D[0][n] when src is empty, D[m][0] when tar is empty), for
\* both values of local.
C27_FastPathsAgree ==
    (Done("editex") /\ cost = EditexDefaultCost /\ EditexFastPath) =>
        EqFrac(result,
               editex_by_table(editex_normalize(src), editex_normalize(tar),
                               cost, local), 1)

\* C27, amended: under the default cost, the equal-input fast path returns
\* what the table computation produces, 0, for both values of local.  The
\* empty-input fast paths return the length of the other normalized string
\* times the mismatch cost, which is never less than the boundary cell the
\* table computation produces, and equal to it exactly when the boundary
\* was written (src empty, or local = False) and each of its steps costs
\* the mismatch cost; with tar empty and local = True the table gives 0.
C27_FastPathsBound ==
    (Done("editex") /\ cost = EditexDefaultCost /\ EditexFastPath) =>
        LET s == editex_normalize(src)
            t == editex_normalize(tar)
            cell == editex_by_table(s, t, cost, local)
        IN  /\ s = t => EqFrac(result, cell, 1) /\ cell = 0
            /\ (s = <<>> /\ t # <<>>) =>
                   /\ EqFrac(result, Len(t) * mismatch_cost(cost), 2)
                   /\ 2 * cell <= Len(t) * mismatch_cost(cost)
                   /\ EqFrac(result, cell, 1) <=> AllMismatchSteps(t, cost)
            /\ (t = <<>> /\ s # <<>>) =>
                   /\ EqFrac(result, Len(s) * mismatch_cost(cost), 2)
                   /\ 2 * cell <= Len(s) * mismatch_cost(cost)
                   /\ local => cell = 0
                   /\ EqFrac(result, cell, 1)
                          <=> (~local /\ AllMismatchSteps(s, cost))

\* Witness of C27: editex has returned 4 for an empty source and a target
\* of twice the same letter, for which row 0 of the table ends at 2.
C27_Witness ==
    /\ Done("editex") /\ cost = EditexDefaultCost
    /\ editex_normalize(src) = <<>>
    /\ Len(editex_normalize(tar)) = 2
    /\ editex_normalize(tar)[1] = editex_normalize(tar)[2]
    /\ EqFrac(result, 4, 1)
    /\ editex_by_table(editex_normalize(src), editex_normalize(tar),
                       cost, local) = 2

----------------------------------------------------------------------------
\* The rows and columns of the interior of the table being filled.
FillRows == IF policy = "editex" THEN EditexLens ELSE Len(src)
FillCols == IF policy = "editex" THEN EditexLent ELSE Len(tar)

\* The cell the interior loop is about to assign: d_mat[i, j] in editex,
\* d_mat[i + 1, j + 1] in typo.
FillCell ==
    IF policy = "editex" THEN <<loop_i, loop_j>>
    ELSE <<loop_i + 1, loop_j + 1>>

\* The interior cells assigned so far, while the interior loop runs.
InteriorWrites == (FillCell[1] - 1) * FillCols + (FillCell[2] - 1)

\* Cell (ii, jj) holds its final value while the interior loop runs: it is
\* on the boundary, or the loop has passed it.
WrittenBefore(ii, jj) ==
    ii = 0 \/ jj = 0 \/ (ii - 1) * FillCols + (jj - 1) < InteriorWrites

BoundarySteps == {"col0", "row0", "boundary_i", "boundary_j"}

\* One step of the fill, as C28 has it.
C28_Step ==
    /\ (pc \in BoundarySteps /\ pc' \in BoundarySteps \cup {"interior"}) =>
           \A ij \in DOMAIN d_mat :
               (ij[1] > 0 /\ ij[2] > 0) => d_mat'[ij] = d_mat[ij]
    /\ pc' \in BoundarySteps => pc \in BoundarySteps \cup {"call"}
    /\ (pc = "interior" /\ pc' \in {"interior", "return"}) =>
           /\ \A ij \in DOMAIN d_mat \ {FillCell} : d_mat'[ij] = d_mat[ij]
           /\ WrittenBefore(FillCell[1] - 1, FillCell[2])
           /\ WrittenBefore(FillCell[1], FillCell[2] - 1)
           /\ WrittenBefore(FillCell[1] - 1, FillCell[2] - 1)
           /\ ~WrittenBefore(FillCell[1], FillCell[2])
           /\ pc' = "interior" => InteriorWrites' = InteriorWrites + 1
    /\ pc = "interior" =>
           /\ pc' \in {"interior", "return"}
           /\ pc' = "return" => InteriorWrites + 1 = FillRows * FillCols

\* C28: DP fill order.  In editex and in typo the boundary row and column
\* are written before any interior cell; each interior cell (i, j) is
\* written exactly once, after cells (i-1, j), (i, j-1) and (i-1, j-1) hold
\* their final values; the interior loop modifies no boundary cell and no
\* cell written before; and the fill ends after exactly m * n interior
\* writes.
C28_FillOrder == [][C28_Step]_vars

====
